---- MODULE Spec2Model ----
(***************************************************************************)
(* CommentController (src/server/controllers/v1/comment.ts) over the table *)
(* behind commentsRepo.  Each public method is one action; vote is also    *)
(* given as its three separate steps (load, increment, save) for the       *)
(* interleaved specification SpecConc.                                     *)
(*                                                                         *)
(* A JavaScript value that may be undefined (an optional argument, a        *)
(* column that may hold NULL) is a sequence: <<>> when it is absent, <<v>>  *)
(* when it is the value v.                                                 *)
(***************************************************************************)
EXTENDS Integers, Sequences, FiniteSets, TLC

\* ------------------------------------------------------------------ bounds
\* Number of rows the table ever receives (ids are handed out 1, 2, ...).
MaxPosts == 1
\* feedbackScore is kept within -MaxScore .. MaxScore by the vote guards.
MaxScore == 1
\* Largest capacity a caller supplies.
MaxCapacity == 1
\* Number of requests in flight in the interleaved specification.
NumProcs == 2

\* --------------------------------------------------------------- constants
\* const MAX_RESULTS = 50;
MAX_RESULTS == 50

\* ------------------------------------------------------------ input sets
Users == {"u1", "u2"}
PostIds == 1 .. MaxPosts
Amounts == {1, -1}
Procs == 1 .. NumProcs
\* "" is the falsy string.
Titles == {"", "t1", "t2"}
Bodies == {"b1"}
Locations == {"l1"}
Capacities == 0 .. MaxCapacity
Limits == {0, 1, MAX_RESULTS, MAX_RESULTS + 1}
Offsets == {0, 1}

Opt(S) == {<<>>} \cup {<<v>> : v \in S}
Min(a, b) == IF a < b THEN a ELSE b

VARIABLES
    store,      \* the table: id -> row
    nextId,     \* id the next inserted row receives
    call,       \* the call handled by the last step
    resp,       \* the {status, data} it returned
    deleted,    \* ids for which deletePost returned 204
    lastVote,   \* per id: the successful votes since the row was last written otherwise
    procs       \* SpecConc: per request, its position inside vote

vars == <<store, nextId, call, resp, deleted, lastVote, procs>>

\* ------------------------------------------------------------ JS helpers
\* !x for a string or undefined: undefined and "" are falsy.
FalsyStr(x) == x = <<>> \/ x[1] = ""
\* !x for a number or undefined: undefined and 0 are falsy.
FalsyNum(x) == x = <<>> \/ x[1] = 0
\* x == undefined
IsUndefined(x) == x = <<>>

NoData == [k \in {} |-> 0]
Response(status, data) == [status |-> status, data |-> data]
Message(m) == [message |-> m]
Result(r) == [result |-> r]

\* ------------------------------------------------------------- the store
Remove(st, id) == [i \in DOMAIN st \ {id} |-> st[i]]
Put(st, id, row) == [i \in DOMAIN st \cup {id} |-> IF i = id THEN row ELSE st[i]]

\* commentsRepo.findByPk(id) / findOne({where: {id}}): the rows with that key.
FindByPk(st, id) == IF id \in DOMAIN st THEN <<st[id]>> ELSE <<>>

\* LIMIT lim OFFSET off applied to the selected rows.
Page(rows, lim, off) ==
    SubSeq(rows, off + 1, Min(Len(rows), off + lim))

\* limit: limit > MAX_RESULTS ? MAX_RESULTS : limit
EffectiveLimitAlways(limit) == MAX_RESULTS
EffectiveLimit(limit) == IF limit > MAX_RESULTS THEN MAX_RESULTS ELSE limit

\* The row commentsRepo.create({title, body, location, capacity, UserId})
\* inserts.  feedbackScore is not passed: it takes the column default, 0.
NewRow(id, title, body, location, capacity, userID) ==
    [id |-> id, title |-> title, body |-> body, location |-> location,
     capacity |-> capacity, feedbackScore |-> 0, UserId |-> userID]

\* result.destroy()
DestroyKeeps(st, id) == st
Destroy(st, id) == Remove(st, id)

\* instance.save() after a vote: UPDATE ... SET feedbackScore WHERE id.
SaveScore(st, inst) ==
    IF inst.id \in DOMAIN st
    THEN [st EXCEPT ![inst.id].feedbackScore = inst.feedbackScore]
    ELSE st

\* post.save() in updatePost: UPDATE of the four assigned attributes WHERE id.
SavePost(st, post) ==
    IF post.id \in DOMAIN st
    THEN [st EXCEPT ![post.id].title = post.title,
                    ![post.id].body = post.body,
                    ![post.id].location = post.location,
                    ![post.id].capacity = post.capacity]
    ELSE st

\* this.getPost(postID): the row by primary key, 200 with it or 404.
GetPost(st, postID) ==
    IF postID \in DOMAIN st
    THEN Response(200, Result(st[postID]))
    ELSE Response(404, Message("could not be found"))

\* History of the successful votes on one row: amount of the last vote, the
\* row before it, and the same two for the vote before that.
NoVote == [amount |-> 0, before |-> {}, prior |-> 0, base |-> {}]
Voted(lv, amount, row) ==
    [amount |-> amount, before |-> {row}, prior |-> lv.amount, base |-> lv.before]

NoProc == [pc |-> "idle"]

TypeOK ==
    /\ DOMAIN store \subseteq PostIds
    /\ nextId \in 1 .. MaxPosts + 1
    /\ deleted \subseteq PostIds
    /\ \A i \in DOMAIN store :
          /\ store[i].id = i
          /\ store[i].feedbackScore \in -MaxScore .. MaxScore
          /\ store[i].UserId \in Users

Init ==
    /\ store = [i \in {} |-> 0]
    /\ nextId = 1
    /\ call = [op |-> "none"]
    /\ resp = Response(0, NoData)
    /\ deleted = {}
    /\ lastVote = [i \in PostIds |-> NoVote]
    /\ procs = [p \in Procs |-> NoProc]

\* ------------------------------------------------------------ getComments
GetCommentsResponse(postID, data) ==
    IF data = <<>>
    THEN Response(404, Message("could not be found"))
    ELSE Response(200, Result(data))

GetComments ==
    \E postID \in PostIds, limit \in Limits, offset \in Offsets :
        LET data == Page(FindByPk(store, postID), EffectiveLimit(limit), offset)
        IN  /\ call' = [op |-> "getComments", postID |-> postID,
                        limit |-> limit, offset |-> offset]
            /\ resp' = GetCommentsResponse(postID, data)
            /\ UNCHANGED <<store, nextId, deleted, lastVote, procs>>

\* ------------------------------------------------------------- getComment
GetCommentResponseAlways200(postID, data) == Response(200, Result(data))
GetCommentResponse(postID, data) ==
    IF data = <<>>
    THEN Response(404, Message("could not be found"))
    ELSE Response(200, Result(data[1]))

GetComment ==
    \E postID \in PostIds, userID \in Users :
        LET data == FindByPk(store, postID)
        IN  /\ call' = [op |-> "getComment", postID |-> postID, userId |-> userID]
            /\ resp' = GetCommentResponse(postID, data)
            /\ UNCHANGED <<store, nextId, deleted, lastVote, procs>>

\* ------------------------------------------------------------- deletePost
\* result.UserId != userId
DeleteDeniedNever(row, userId) == FALSE
DeleteDenied(row, userId) == row.UserId # userId

DeletePost ==
    \E userId \in Users, postID \in PostIds :
        LET result == FindByPk(store, postID)
        IN  /\ call' = [op |-> "deletePost", postID |-> postID, userId |-> userId]
            /\ IF result = <<>>
               THEN /\ resp' = Response(404, Message("could not be deleted"))
                    /\ UNCHANGED <<store, deleted, lastVote>>
               ELSE IF DeleteDenied(result[1], userId)
               THEN /\ resp' = Response(401, Message("Unauthorized to delete the post."))
                    /\ UNCHANGED <<store, deleted, lastVote>>
               ELSE /\ store' = Destroy(store, postID)
                    /\ resp' = Response(204, NoData)
                    /\ deleted' = deleted \cup {postID}
                    /\ lastVote' = [lastVote EXCEPT ![postID] = NoVote]
            /\ UNCHANGED <<nextId, procs>>

\* ------------------------------------------------------------------- vote
\* (data.data.result!.feedbackScore as number) += amount
IncrementAlwaysUp(row, amount) == [row EXCEPT !.feedbackScore = @ + 1]
Increment(row, amount) == [row EXCEPT !.feedbackScore = @ + amount]

InScoreRange(n) == n \in -MaxScore .. MaxScore

Vote ==
    \E postID \in PostIds, amount \in Amounts, saved \in BOOLEAN :
        LET data == GetPost(store, postID)
        IN  /\ call' = [op |-> "vote", postID |-> postID, amount |-> amount]
            /\ IF data.status # 200
               THEN /\ resp' = data
                    /\ UNCHANGED <<store, lastVote>>
               ELSE LET inst == Increment(data.data.result, amount)
                    IN  /\ InScoreRange(data.data.result.feedbackScore + amount)
                        /\ IF saved
                           THEN /\ store' = SaveScore(store, inst)
                                /\ resp' = Response(204, Result(inst))
                                /\ lastVote' = [lastVote EXCEPT ![postID] =
                                                  Voted(@, amount, store[postID])]
                           ELSE /\ resp' = Response(400, Message("Could not vote"))
                                /\ UNCHANGED <<store, lastVote>>
            /\ UNCHANGED <<nextId, deleted, procs>>

\* ------------------------------------------------------------- createPost
\* !title || !body || !location || capacity == undefined
MissingFieldsNoCapacity(title, body, location, capacity) ==
    FalsyStr(title) \/ FalsyStr(body) \/ FalsyStr(location)
MissingFields(title, body, location, capacity) ==
    FalsyStr(title) \/ FalsyStr(body) \/ FalsyStr(location) \/ IsUndefined(capacity)

CreatePost ==
    \E userID \in Users, title \in Opt(Titles), body \in Opt(Bodies),
       location \in Opt(Locations), capacity \in Opt(Capacities),
       inserted \in BOOLEAN :
        /\ call' = [op |-> "createPost", userId |-> userID, title |-> title,
                    body |-> body, location |-> location, capacity |-> capacity]
        /\ IF MissingFields(title, body, location, capacity)
           THEN /\ resp' = Response(400, Message("Missing fields."))
                /\ UNCHANGED <<store, nextId>>
           ELSE /\ nextId <= MaxPosts
                /\ IF inserted
                   THEN LET post == NewRow(nextId, title, body, location,
                                           capacity, userID)
                        IN  /\ store' = Put(store, nextId, post)
                            /\ nextId' = nextId + 1
                            /\ resp' = Response(200, Result(post))
                   ELSE /\ resp' = Response(500, Message("Could not create the new post"))
                        /\ UNCHANGED <<store, nextId>>
        /\ UNCHANGED <<deleted, lastVote, procs>>

\* ------------------------------------------------------------- updatePost
\* post.UserId == currentUserId
UpdateAllowedAlways(post, currentUserId) == TRUE
UpdateAllowed(post, currentUserId) == post.UserId = currentUserId

\* title || post.title (likewise body, location)
MergeStrOverwrite(new, old) == new
MergeStr(new, old) == IF FalsyStr(new) THEN old ELSE new
\* capacity || post.capacity
MergeNum(new, old) == IF FalsyNum(new) THEN old ELSE new

Merge(post, title, body, location, capacity) ==
    [post EXCEPT !.title = MergeStr(title, @),
                 !.body = MergeStr(body, @),
                 !.location = MergeStr(location, @),
                 !.capacity = MergeNum(capacity, @)]

\* save() sends a statement only for changed attributes; only a statement
\* that is sent can fail.
UpdatePost ==
    \E currentUserId \in Users, postID \in PostIds, title \in Opt(Titles),
       body \in Opt(Bodies), location \in Opt(Locations),
       capacity \in Opt(Capacities), saved \in BOOLEAN :
        LET got == GetPost(store, postID)
            found == "result" \in DOMAIN got.data
        IN  /\ call' = [op |-> "updatePost", userId |-> currentUserId,
                        postID |-> postID, title |-> title, body |-> body,
                        location |-> location, capacity |-> capacity]
            /\ IF found /\ UpdateAllowed(got.data.result, currentUserId)
               THEN LET post == Merge(got.data.result, title, body, location, capacity)
                    IN  /\ saved \/ post # got.data.result
                        /\ IF saved
                           THEN /\ store' = SavePost(store, post)
                                /\ resp' = Response(200, Result(post))
                                /\ lastVote' = [lastVote EXCEPT ![postID] = NoVote]
                           ELSE /\ resp' = Response(500, Message("Could not update the post."))
                                /\ UNCHANGED <<store, lastVote>>
               ELSE IF found
               THEN /\ resp' = Response(401, Message("Not authorized to edit this post."))
                    /\ UNCHANGED <<store, lastVote>>
               ELSE /\ resp' = Response(404, Message("Could not find post."))
                    /\ UNCHANGED <<store, lastVote>>
            /\ UNCHANGED <<nextId, deleted, procs>>

Next ==
    \/ GetComments
    \/ GetComment
    \/ DeletePost
    \/ Vote
    \/ CreatePost
    \/ UpdatePost

Spec == Init /\ [][Next]_vars

\* ---------------------------------------------- vote, one step at a time
\* The table as createPost leaves it: empty still, or holding one post.
ConcPost == NewRow(1, <<"t1">>, <<"b1">>, <<"l1">>, <<1>>, "u1")

InitConc ==
    /\ \/ store = [i \in {} |-> 0] /\ nextId = 1
       \/ store = Put([i \in {} |-> 0], 1, ConcPost) /\ nextId = 2
    /\ call = [op |-> "none"]
    /\ resp = Response(0, NoData)
    /\ deleted = {}
    /\ lastVote = [i \in PostIds |-> NoVote]
    /\ procs = [p \in Procs |-> NoProc]

Done(status, postID, amount) ==
    [pc |-> "done", status |-> status, postID |-> postID, amount |-> amount]

\* const data = await this.getPost(postID); if (data.status != 200) return data;
VoteLoad(p) ==
    /\ procs[p].pc = "idle"
    /\ \E postID \in PostIds, amount \in Amounts :
        LET data == GetPost(store, postID)
        IN  IF data.status # 200
            THEN /\ procs' = [procs EXCEPT ![p] = Done(data.status, postID, amount)]
                 /\ call' = [op |-> "vote", postID |-> postID, amount |-> amount]
                 /\ resp' = data
            ELSE /\ procs' = [procs EXCEPT ![p] =
                        [pc |-> "loaded", postID |-> postID, amount |-> amount,
                         inst |-> data.data.result]]
                 /\ UNCHANGED <<call, resp>>
    /\ UNCHANGED <<store, nextId, deleted, lastVote>>

VoteIncrement(p) ==
    /\ procs[p].pc = "loaded"
    /\ InScoreRange(procs[p].inst.feedbackScore + procs[p].amount)
    /\ procs' = [procs EXCEPT ![p].pc = "incremented",
                              ![p].inst = Increment(@, procs[p].amount)]
    /\ UNCHANGED <<store, nextId, call, resp, deleted, lastVote>>

\* await data.data.result!.save(); return { status: 204, ... }
VoteSave(p) ==
    /\ procs[p].pc = "incremented"
    /\ store' = SaveScore(store, procs[p].inst)
    /\ call' = [op |-> "vote", postID |-> procs[p].postID, amount |-> procs[p].amount]
    /\ resp' = Response(204, Result(procs[p].inst))
    /\ procs' = [procs EXCEPT ![p] = Done(204, procs[p].postID, procs[p].amount)]
    /\ UNCHANGED <<nextId, deleted, lastVote>>

\* catch (err) { ... return { status: 400, ... } }
VoteSaveFails(p) ==
    /\ procs[p].pc = "incremented"
    /\ call' = [op |-> "vote", postID |-> procs[p].postID, amount |-> procs[p].amount]
    /\ resp' = Response(400, Message("Could not vote"))
    /\ procs' = [procs EXCEPT ![p] = Done(400, procs[p].postID, procs[p].amount)]
    /\ UNCHANGED <<store, nextId, deleted, lastVote>>

NextConc ==
    \E p \in Procs :
        \/ VoteLoad(p)
        \/ VoteIncrement(p)
        \/ VoteSave(p)
        \/ VoteSaveFails(p)

SpecConc == InitConc /\ [][NextConc]_vars
\* ================================================================ claims
Fields == {"title", "body", "location", "capacity"}
Supplied(x) == x # <<>>
RowsReturned(r) == IF "result" \in DOMAIN r.data THEN Len(r.data.result) ELSE 0

\* C1: deletePost on an existing record whose UserId differs from userId
\* returns 401 and the record is still present with every field unchanged.
C1_DeleteByOtherUserRejected ==
    [][(/\ call'.op = "deletePost"
        /\ call'.postID \in DOMAIN store
        /\ store[call'.postID].UserId # call'.userId)
       => (/\ resp'.status = 401
           /\ call'.postID \in DOMAIN store'
           /\ store'[call'.postID] = store[call'.postID])]_vars

C1_Witness ==
    /\ call.op = "deletePost"
    /\ call.postID \in DOMAIN store
    /\ store[call.postID].UserId # call.userId
    /\ resp.status = 401

\* C2: createPost with at least one of title, body, location, capacity absent
\* returns 400 whatever the other arguments are, and adds no record.
C2_CreateMissingField400 ==
    [][(/\ call'.op = "createPost"
        /\ \/ ~Supplied(call'.title)
           \/ ~Supplied(call'.body)
           \/ ~Supplied(call'.location)
           \/ ~Supplied(call'.capacity))
       => (resp'.status = 400 /\ store' = store /\ nextId' = nextId)]_vars

C2_Witness ==
    /\ call.op = "createPost"
    /\ ~Supplied(call.capacity)
    /\ call.title = <<"t1">> /\ call.body = <<"b1">> /\ call.location = <<"l1">>
    /\ resp.status = 400

\* C3 (as claimed): for an existing post and its owner, updatePost sets every
\* supplied field to the supplied value, whatever the value, keeps every
\* field not supplied, and returns 200 with the updated record (500 when the
\* save throws); 404 when the post does not exist, 401 when it is owned by
\* someone else.
C3_UpdateSetsEverySuppliedField ==
    [][call'.op = "updatePost" =>
        LET id == call'.postID
        IN  IF id \notin DOMAIN store THEN resp'.status = 404
            ELSE IF store[id].UserId # call'.userId THEN resp'.status = 401
            ELSE \/ resp'.status = 500
                 \/ /\ resp'.status = 200
                    /\ id \in DOMAIN store'
                    /\ resp'.data.result = store'[id]
                    /\ \A f \in Fields :
                          store'[id][f] = IF Supplied(call'[f]) THEN call'[f]
                                          ELSE store[id][f]]_vars

C5_VoteUpThenDownRestores ==
    \A id \in PostIds :
        (lastVote[id].amount = -1 /\ lastVote[id].prior = 1)
        => (id \in DOMAIN store /\ lastVote[id].base = {store[id]})

C5_Witness ==
    \E id \in PostIds :
        /\ lastVote[id].amount = -1
        /\ lastVote[id].prior = 1
        /\ call.op = "vote" /\ call.postID = id /\ resp.status = 204

C7_FetchMissingIs404 ==
    [][(/\ call'.op \in {"getComment", "getComments"}
        /\ call'.postID \notin DOMAIN store)
       => (/\ resp'.status = 404
           /\ "message" \in DOMAIN resp'.data
           /\ "result" \notin DOMAIN resp'.data
           /\ store' = store)]_vars

C7_Witness ==
    /\ call.op = "getComment"
    /\ call.postID \notin DOMAIN store
    /\ resp.status = 404
    /\ "result" \notin DOMAIN resp.data

\* C8: a record's title, body, location or capacity changes, or the record is
\* removed, only in a step of a call whose acting user is the record's UserId;
\* a record's UserId is the creating user's ID and never changes.
C8_OnlyOwnerMutates ==
    [][/\ \A id \in DOMAIN store :
            /\ (\/ id \notin DOMAIN store'
                \/ \E f \in Fields : store'[id][f] # store[id][f])
               => (/\ call'.op \in {"deletePost", "updatePost"}
                   /\ call'.postID = id
                   /\ call'.userId = store[id].UserId)
            /\ id \in DOMAIN store' => store'[id].UserId = store[id].UserId
       /\ \A id \in DOMAIN store' \ DOMAIN store :
            /\ call'.op = "createPost"
            /\ store'[id].UserId = call'.userId]_vars

C8_Witness ==
    /\ call.op = "updatePost"
    /\ resp.status = 200
    /\ call.title = <<"t2">>
    /\ store[call.postID].title = <<"t2">>
    /\ store[call.postID].UserId = call.userId

\* C9: deletePost returns 404 when no record has the id; by the owner of an
\* existing record it removes the record and returns 204; after a 204 every
\* later getComment, updatePost, deletePost or vote on that id returns 404.
C9_DeleteThenGone ==
    [][/\ (call'.op = "deletePost" /\ call'.postID \notin DOMAIN store)
          => resp'.status = 404
       /\ (/\ call'.op = "deletePost"
           /\ call'.postID \in DOMAIN store
           /\ store[call'.postID].UserId = call'.userId)
          => (resp'.status = 204 /\ call'.postID \notin DOMAIN store')
       /\ (/\ call'.op \in {"getComment", "updatePost", "deletePost", "vote"}
           /\ call'.postID \in deleted)
          => resp'.status = 404]_vars

C9_Witness ==
    /\ call.op = "vote"
    /\ call.postID \in deleted
    /\ resp.status = 404

\* C10 (as claimed): when the interleaved vote calls on a post have all
\* returned 204, its feedbackScore is the initial value plus the sum of their
\* amounts.
RECURSIVE SumAmounts(_, _)
SumAmounts(P, id) ==
    IF P = {} THEN 0
    ELSE LET p == CHOOSE q \in P : TRUE
         IN  (IF procs[p].postID = id THEN procs[p].amount ELSE 0)
             + SumAmounts(P \ {p}, id)

C10_NoVoteLost ==
    (\A p \in Procs : procs[p].pc = "done" /\ procs[p].status = 204)
    => \A id \in DOMAIN store :
          store[id].feedbackScore = ConcPost.feedbackScore + SumAmounts(Procs, id)
====
